---- MODULE Spec2Model ----
(***************************************************************************)
(* A model of the ignition-plugin loader runtime (loader/src/Loader.cc):   *)
(* the process-wide registries and archive, the registration hook, the     *)
(* operating system's per-library reference count, the shared library     *)
(* handles (std::shared_ptr<void> whose deleter is dlclose), the Loader    *)
(* tables and the plugin handles made by Instantiate.                      *)
(***************************************************************************)
EXTENDS Integers, Sequences, FiniteSets, TLC

VARIABLES
  started,      \* the host's static initializers have run (main has begun)
  osRef,        \* library -> dlopen calls not yet balanced by a dlclose
  osHandle,     \* library -> the handle it is mapped under, or NullH
  libHeld,      \* library -> descriptors held by its static registration objects
  kNative,      \* kNativePlugins.pluginMap : symbol -> descriptor
  kDynamic,     \* kDynamicPlugins.pluginMap : symbol -> descriptor
  registering,  \* registeringDynamicPlugins
  regOkay,      \* registrationOkay
  arcInfo,      \* kArchive.dlHandleToInfo : raw handle -> sequence of weak refs
  arcBack,      \* kArchive.infoToDlHandle : descriptor -> raw handle
  mutex,        \* Loader::Implementation::loadingMutex : "free" or its holder
  ld,           \* loader -> its Implementation and the frame of a running LoadLib
  grp,          \* the live control blocks of the shared library handles
  handles,      \* plugin handle slot -> plugin handle, or Nil
  fault,        \* "none", or how the process left defined behaviour
  world,        \* the libraries on disk in this run
  loadRet       \* loader -> library -> what its latest LoadLib of it returned

vars == <<started, osRef, osHandle, libHeld, kNative, kDynamic, registering, regOkay,
          arcInfo, arcBack, mutex, ld, grp, handles, fault, world, loadRet>>

----------------------------------------------------------------------------
(* Bounds of the model. *)

\* plugin handles alive at the same time
MaxHandles == 1
\* owners of one plugin handle at the same time
MaxShares == 2
\* places the operating system can load one library at
MaxAddrs == 2
\* interface shares (QueryInterfaceSharedPtr) of one instance at the same time
MaxIShares == 1

Loaders == {"l1", "l2"}
HandleIds == 1 .. MaxHandles

----------------------------------------------------------------------------
(* Small helpers for finite maps (functions with a finite domain). *)

EmptyMap == [x \in {} |-> x]
Put(f, k, v) == [x \in (DOMAIN f) \cup {k} |-> IF x = k THEN v ELSE f[x]]
Del(f, k) == [x \in (DOMAIN f) \ {k} |-> f[x]]
Range(f) == {f[x] : x \in DOMAIN f}
SeqRange(q) == {q[i] : i \in 1 .. Len(q)}

RECURSIVE SetToSeq(_)
SetToSeq(S) ==
  IF S = {} THEN <<>>
  ELSE LET x == CHOOSE y \in S : TRUE IN <<x>> \o SetToSeq(S \ {x})

Nil == [nil |-> TRUE]
\* what a LoadLib call returned, and that no call was made
Ret(names) == [called |-> TRUE, names |-> names]
NoRet == [called |-> FALSE, names |-> {}]

----------------------------------------------------------------------------
(* The libraries of the test bed and what their static initializers do.    *)

\* A dl handle: the library it stands for and the place the library is loaded at
\* (one value per loading: the handle's address and the code's addresses).
Handle(L, a) == [lib |-> L, a |-> a]
\* the null dl handle (the handle recorded for native plugins)
NullH == [lib |-> "null", a |-> 0]
\* the executable itself (the code of native plugins)
Host == "host"
HostH == [lib |-> Host, a |-> 0]
\* no path (a frame that is not running)
NoPath == ""

Libs == {"LA", "LB", "LG", "LS", "LM", "LN", "LC", "LX", "LZ", "LT", "LV", "LW"}

SizeofInfo == "sizeof(info_v1::Info)"
AlignofInfo == "alignof(info_v1::Info)"

\* One call of the registration hook made by a static initializer:
\* keep = the returned handle is stored and given to the cleanup hook at unload
\* (Registrar::Register, not Registrar::RegisterAlias).
Reg(sym, ifaces, als, keep) ==
  [symbol |-> sym, interfaces |-> ifaces, aliases |-> als,
   size |-> SizeofInfo, align |-> AlignofInfo, keep |-> keep]

\* The same call from a library built against another layout of Info: it passes
\* its own sizeof or alignof.
BadReg(sym, ifaces, als, keep, size, align) ==
  [Reg(sym, ifaces, als, keep) EXCEPT !.size = size, !.align = align]

\* The hook calls a library's static initializers make, in translation-unit order.
\*   LA: plugin P registered in two translation units, with an alias;
\*   LB: another build of plugin P, under another alias;
\*   LG: a library built against the deprecated protocol (no static registration),
\*       with plugins G and H that share an alias;
\*   LS: a library linked into the host: it registers N at program start;
\*   LM: no such file;
\*   LN: plugin Q, in a library the operating system never unloads;
\*   LC: plugins C and D, where D has the alias "C";
\*   LX: plugin R and its alias, and between them plugin S registered with
\*       another alignment of Info;
\*   LZ: plugin Z alone, registered with another size of Info;
\*   LT: a loadable build of plugin N, the plugin LS links into the host;
\*   LV: plugin V, in a library that also exports the deprecated entry point,
\*       which reports another version;
\*   LW: plugin Y, in a library that also exports the deprecated entry point,
\*       which hands over plugin W.
LibRegs(L) ==
  CASE L = "LA" -> << Reg("1P", {"1I"}, {}, TRUE), Reg("1P", {"1J"}, {}, TRUE),
                      Reg("1P", {}, {"a"}, FALSE) >>
    [] L = "LB" -> << Reg("1P", {"1I"}, {}, TRUE), Reg("1P", {}, {"b"}, FALSE) >>
    [] L = "LS" -> << Reg("1N", {"1I"}, {}, TRUE), Reg("1N", {}, {"n"}, FALSE) >>
    [] L = "LN" -> << Reg("1Q", {"1I"}, {}, TRUE), Reg("1Q", {}, {"q"}, FALSE) >>
    [] L = "LC" -> << Reg("1C", {"1I"}, {}, TRUE), Reg("1D", {"1I"}, {}, TRUE),
                      Reg("1D", {}, {"C"}, FALSE) >>
    [] L = "LX" -> << Reg("1R", {"1I"}, {}, TRUE),
                      BadReg("1S", {"1I"}, {}, TRUE, SizeofInfo, "alignof + 8"),
                      Reg("1R", {}, {"r"}, FALSE) >>
    [] L = "LZ" -> << BadReg("1Z", {"1I"}, {}, TRUE, "sizeof + 8", AlignofInfo) >>
    [] L = "LT" -> << Reg("1N", {"1I"}, {}, TRUE) >>
    [] L = "LV" -> << Reg("1V", {"1I"}, {}, TRUE) >>
    [] L = "LW" -> << Reg("1Y", {"1I"}, {}, TRUE) >>
    [] OTHER -> << >>

\* The version the deprecated hook protocol supports.
INFO_API_VERSION == 1

\* The deprecated entry point IgnitionPluginHook of a library, if it exports one.
LibLegacy(L) ==
  CASE L = "LG" -> [present |-> TRUE, version |-> 1, sizeOk |-> TRUE,
                    infos |-> {[name |-> "1G", aliases |-> {"g"}, interfaces |-> {"1I"}],
                               [name |-> "1H", aliases |-> {"g"}, interfaces |-> {"1J"}]}]
    [] L = "LV" -> [present |-> TRUE, version |-> 2, sizeOk |-> TRUE,
                    infos |-> {[name |-> "1U", aliases |-> {}, interfaces |-> {"1I"}]}]
    [] L = "LW" -> [present |-> TRUE, version |-> 1, sizeOk |-> TRUE,
                    infos |-> {[name |-> "1W", aliases |-> {}, interfaces |-> {"1I"}]}]
    [] OTHER -> [present |-> FALSE, version |-> 1, sizeOk |-> TRUE, infos |-> {}]

\* dlopen finds the file
LibExists(L) == L # "LM"
\* the library is linked into the host and loaded before main
LibStatic(L) == L = "LS"
\* the operating system keeps the library mapped when its count falls to zero
\* ("which it might or might not choose to do", Loader.cc line 633)
LibNoDelete(L) == L = "LN"
\* the operating system may load the library at another place when it comes
\* back after an unload (the others come back where they were)
LibMoves(L) == L = "LG"
\* dlsym(handle, "_ZTI" + symbol) finds the type info of a class the library defines
LibHasTypeInfo(L, sym) ==
  \/ \E i \in 1 .. Len(LibRegs(L)) : LibRegs(L)[i].symbol = sym
  \/ \E i \in LibLegacy(L).infos : i.name = sym

\* The pairs of libraries a run works with.
Worlds == { {"LA", "LB"}, {"LG"}, {"LS", "LM"}, {"LA", "LM"}, {"LN"}, {"LC"},
            {"LX", "LZ"}, {"LS", "LT"}, {"LV"}, {"LW"} }

\* DemangleSymbol: the human-readable name of an Itanium type name
\* (typeid(T).name() of class P is "1P").
DemangleSymbol(sym) ==
  CASE sym = "1P" -> "P" [] sym = "1H" -> "H" [] sym = "1G" -> "G"
    [] sym = "1N" -> "N" [] sym = "1Q" -> "Q" [] sym = "1I" -> "I"
    [] sym = "1J" -> "J" [] sym = "1C" -> "C" [] sym = "1D" -> "D"
    [] sym = "1R" -> "R" [] sym = "1S" -> "S" [] sym = "1Z" -> "Z"
    [] sym = "1U" -> "U" [] sym = "1V" -> "V" [] sym = "1W" -> "W"
    [] sym = "1Y" -> "Y"
    [] OTHER -> sym

----------------------------------------------------------------------------
(* The program state as one record, so that the steps of a handler compose. *)

St ==
  [started |-> started, osRef |-> osRef, osHandle |-> osHandle,
   libHeld |-> libHeld, kNative |-> kNative,
   kDynamic |-> kDynamic, registering |-> registering, regOkay |-> regOkay,
   arcInfo |-> arcInfo, arcBack |-> arcBack, mutex |-> mutex, ld |-> ld,
   grp |-> grp, handles |-> handles, fault |-> fault, loadRet |-> loadRet]

Set(s) ==
  /\ started' = s.started /\ osRef' = s.osRef /\ osHandle' = s.osHandle
  /\ libHeld' = s.libHeld
  /\ kNative' = s.kNative /\ kDynamic' = s.kDynamic
  /\ registering' = s.registering /\ regOkay' = s.regOkay
  /\ arcInfo' = s.arcInfo /\ arcBack' = s.arcBack /\ mutex' = s.mutex
  /\ ld' = s.ld /\ grp' = s.grp /\ handles' = s.handles /\ fault' = s.fault
  /\ loadRet' = s.loadRet
  /\ world' = world

----------------------------------------------------------------------------
(* The registration hook and the operating system's library bookkeeping.   *)

\* ExtractRegistry: the descriptors of a registry (in the map's own order).
ExtractRegistry(reg) == SetToSeq(Range(reg))

\* The hook as it would be without line 989's choice of registry: every
\* descriptor goes to the native registry.
IgnitionPluginHook_v1_Native(s, L, r) ==
  IF SizeofInfo # r.size \/ AlignofInfo # r.align
  THEN [s EXCEPT !.regOkay = FALSE]
  ELSE LET reg == s.kNative
           info ==
             IF r.symbol \notin DOMAIN reg
             THEN [code |-> IF L = Host THEN HostH ELSE s.osHandle[L],
                   symbol |-> r.symbol,
                   name |-> DemangleSymbol(r.symbol),
                   aliases |-> r.aliases,
                   interfaces |-> r.interfaces,
                   demangledInterfaces |->
                     {DemangleSymbol(i) : i \in r.interfaces}]
             ELSE [reg[r.symbol] EXCEPT
                     !.interfaces = @ \cup r.interfaces,
                     !.demangledInterfaces =
                        @ \cup {DemangleSymbol(i) : i \in r.interfaces},
                     !.aliases = @ \cup r.aliases]
       IN [s EXCEPT !.kNative = Put(reg, r.symbol, info)]

\* The hook as it would be if lines 1013-1029 replaced an existing entry by the
\* incoming descriptor.
IgnitionPluginHook_v1_Overwrite(s, L, r) ==
  IF SizeofInfo # r.size \/ AlignofInfo # r.align
  THEN [s EXCEPT !.regOkay = FALSE]
  ELSE LET info == [code |-> IF L = Host THEN HostH ELSE s.osHandle[L],
                    symbol |-> r.symbol,
                    name |-> DemangleSymbol(r.symbol),
                    aliases |-> r.aliases,
                    interfaces |-> r.interfaces,
                    demangledInterfaces |->
                      {DemangleSymbol(i) : i \in r.interfaces}]
       IN IF s.registering THEN [s EXCEPT !.kDynamic = Put(@, r.symbol, info)]
                           ELSE [s EXCEPT !.kNative = Put(@, r.symbol, info)]

\* The hook as it would be without the comparison of lines 974-987.
IgnitionPluginHook_v1_NoCheck(s, L, r) ==
  LET reg == IF s.registering THEN s.kDynamic ELSE s.kNative
      info ==
        IF r.symbol \notin DOMAIN reg
        THEN [code |-> IF L = Host THEN HostH ELSE s.osHandle[L],
              symbol |-> r.symbol,
              name |-> DemangleSymbol(r.symbol),
              aliases |-> r.aliases,
              interfaces |-> r.interfaces,
              demangledInterfaces |->
                {DemangleSymbol(i) : i \in r.interfaces}]
        ELSE [reg[r.symbol] EXCEPT
                !.interfaces = @ \cup r.interfaces,
                !.demangledInterfaces =
                   @ \cup {DemangleSymbol(i) : i \in r.interfaces},
                !.aliases = @ \cup r.aliases]
  IN IF s.registering THEN [s EXCEPT !.kDynamic = Put(reg, r.symbol, info)]
                      ELSE [s EXCEPT !.kNative = Put(reg, r.symbol, info)]

\* IgnitionPluginHook_v1, called by the static initializer of library L (or of
\* the host) with the input r. A descriptor records in .code the loading of the
\* library its factory and deleter point into.
IgnitionPluginHook_v1(s, L, r) ==
  IF SizeofInfo # r.size \/ AlignofInfo # r.align
  THEN [s EXCEPT !.regOkay = FALSE]
  ELSE LET reg == IF s.registering THEN s.kDynamic ELSE s.kNative
           inserted == r.symbol \notin DOMAIN reg
           info ==
             IF inserted
             THEN [code |-> IF L = Host THEN HostH ELSE s.osHandle[L],
                   symbol |-> r.symbol,
                   name |-> DemangleSymbol(r.symbol),
                   aliases |-> r.aliases,
                   interfaces |-> r.interfaces,
                   demangledInterfaces |->
                     {DemangleSymbol(i) : i \in r.interfaces}]
             ELSE [reg[r.symbol] EXCEPT
                     !.interfaces = @ \cup r.interfaces,
                     !.demangledInterfaces =
                        @ \cup {DemangleSymbol(i) : i \in r.interfaces},
                     !.aliases = @ \cup r.aliases]
           reg2 == Put(reg, r.symbol, info)
       IN IF s.registering THEN [s EXCEPT !.kDynamic = reg2]
                           ELSE [s EXCEPT !.kNative = reg2]

\* What IgnitionPluginHook_v1 returns: nullptr (Nil), or the descriptor now in
\* the registry.
IgnitionPluginHook_v1_Ret(s, L, r) ==
  IF SizeofInfo # r.size \/ AlignofInfo # r.align THEN Nil
  ELSE LET s1 == IgnitionPluginHook_v1(s, L, r)
       IN IF s.registering THEN s1.kDynamic[r.symbol] ELSE s1.kNative[r.symbol]

\* IgnitionPluginHookCleanup_v1 for the descriptor d a static object held.
IgnitionPluginHookCleanup_v1(s, d) ==
  IF d \in DOMAIN s.arcBack
  THEN [s EXCEPT !.arcInfo = Del(@, s.arcBack[d]), !.arcBack = Del(@, d)]
  ELSE s

\* The static initializers of library L: the constructors of its
\* ExecuteWhenLoadingLibrary objects, each calling the hook; those made by
\* IGNITION_ADD_PLUGIN keep the handle the hook returned.
RECURSIVE RunHooks(_, _, _)
RunHooks(s, L, regs) ==
  IF regs = <<>> THEN s
  ELSE RunHooks(IgnitionPluginHook_v1(s, L, Head(regs)), L, Tail(regs))

RunStaticInit(s, L) ==
  LET s1 == RunHooks(s, L, LibRegs(L))
      reg == IF s1.registering THEN s1.kDynamic ELSE s1.kNative
      kept == {LibRegs(L)[i].symbol : i \in
                 {j \in 1 .. Len(LibRegs(L)) :
                    /\ LibRegs(L)[j].keep
                    /\ LibRegs(L)[j].size = SizeofInfo
                    /\ LibRegs(L)[j].align = AlignofInfo}}
  IN [s1 EXCEPT !.libHeld[L] = {reg[sym] : sym \in kept}]

\* The static destructors of library L: each kept handle goes to the cleanup hook.
RECURSIVE RunCleanups(_, _)
RunCleanups(s, ds) ==
  IF ds = {} THEN s
  ELSE LET d == CHOOSE x \in ds : TRUE
       IN RunCleanups(IgnitionPluginHookCleanup_v1(s, d), ds \ {d})

\* the library is mapped into the process
Mapped(s, L) == s.osHandle[L] # NullH

\* dlopen of an existing library: opening a library that is not mapped loads it
\* at place a and runs its static initializers; every open counts one
\* reference. While the library stays mapped every open returns the same handle.
DlOpen(s, L, a) ==
  IF Mapped(s, L) THEN [s EXCEPT !.osRef[L] = @ + 1]
  ELSE RunStaticInit([s EXCEPT !.osRef[L] = 1, !.osHandle[L] = Handle(L, a)], L)

\* dlclose: the close that balances the last open unloads the library (unless it
\* is linked into the host or kept by the operating system) and runs its static
\* destructors.
DlClose(s, L) ==
  IF s.osRef[L] = 1 /\ ~LibStatic(L) /\ ~LibNoDelete(L)
  THEN [RunCleanups(s, s.libHeld[L]) EXCEPT
          !.osRef[L] = 0, !.libHeld[L] = {}, !.osHandle[L] = NullH]
  ELSE [s EXCEPT !.osRef[L] = @ - 1]

----------------------------------------------------------------------------
(* Shared library handles: std::shared_ptr<void> with dlclose as deleter.  *)

\* control blocks one loader can have for one library at the same time
MaxBlocks == 2

\* A control block is named by the loader that made it, the handle it wraps, and
\* a number that tells apart the blocks of one loader for one handle.
Block(l, h, k) == [owner |-> l, h |-> h, k |-> k]
\* the empty std::shared_ptr<void> (nullptr), also an expired std::weak_ptr<void>
NoShare == [owner |-> "none", h |-> NullH, k |-> 0]
\* the maker of a control block that outlived its loader
Gone == "gone"

\* the strong references to control block g
PluginRefs(s, g) ==
  UNION {{<<l, n>> : n \in {m \in DOMAIN s.ld[l].pluginToDl :
                               s.ld[l].pluginToDl[m] = g}} : l \in Loaders}
FrameRefs(s, g) == {l \in Loaders : s.ld[l].cur = g}
HandleRefs(s, g) ==
  {h \in HandleIds : IF s.handles[h] = Nil THEN FALSE ELSE s.handles[h].dl = g}
UseCount(s, g) ==
  Cardinality(PluginRefs(s, g)) + Cardinality(FrameRefs(s, g))
    + Cardinality(HandleRefs(s, g))

\* the raw handle a share wraps (get())
RawHandle(g) == g.h

\* The deleter of every control block whose last strong reference is gone:
\* dlclose of its handle; the weak references to it expire.
RECURSIVE Reap(_)
Reap(s) ==
  LET dead == {g \in s.grp : UseCount(s, g) = 0}
  IN IF dead = {} THEN s
     ELSE LET g == CHOOSE x \in dead : TRUE
              s1 == [s EXCEPT
                       !.grp = @ \ {g},
                       !.ld = [l \in Loaders |->
                                [@[l] EXCEPT !.dlPtr =
                                   [h \in DOMAIN @ |-> IF @[h] = g THEN NoShare ELSE @[h]]]]]
          IN Reap(DlClose(s1, g.h.lib))

----------------------------------------------------------------------------
(* Loader::Implementation.                                                 *)

\* A Loader that was not constructed yet, or was destroyed.
NoLoader ==
  [alive |-> FALSE, plugins |-> EmptyMap, pluginToDl |-> EmptyMap,
   aliases |-> EmptyMap, dlPtr |-> EmptyMap, dlToPlugins |-> EmptyMap,
   pc |-> "idle", arg |-> NoPath, cur |-> NoShare]

\* ArchivePluginInfo
ArchivePluginInfo(s, infos, h) ==
  IF infos = <<>> THEN s
  ELSE [s EXCEPT
          !.arcInfo = Put(@, h, (IF h \in DOMAIN @ THEN @[h] ELSE <<>>) \o infos),
          !.arcBack = [d \in (DOMAIN @) \cup SeqRange(infos) |->
                         IF d \in SeqRange(infos) THEN h ELSE @[d]]]

\* v1::Update: a deprecated descriptor migrated to the current shape
Update(h, old) ==
  [code |-> h, symbol |-> old.name, name |-> DemangleSymbol(old.name),
   aliases |-> old.aliases, interfaces |-> old.interfaces,
   demangledInterfaces |-> {DemangleSymbol(i) : i \in old.interfaces}]

\* Loader::Implementation::OldIgnitionHook: the descriptors the deprecated entry
\* point of the library with handle h hands over.
OldIgnitionHook(h) ==
  LET hook == LibLegacy(h.lib)
  IN IF INFO_API_VERSION # hook.version THEN <<>>
     ELSE IF ~hook.sizeOk THEN <<>>
     ELSE SetToSeq({Update(h, i) : i \in hook.infos})

\* a strong reference to descriptor d exists (a weak reference to it can lock)
InfoAlive(s, d) ==
  \/ d \in Range(s.kNative) \/ d \in Range(s.kDynamic)
  \/ \E L \in Libs : d \in s.libHeld[L]
  \/ \E l \in Loaders : d \in Range(s.ld[l].plugins)
  \/ \E h \in HandleIds : s.handles[h] # Nil /\ s.handles[h].info = d

\* the deprecated entry point of the library with raw handle h is called
\* (lines 825-829: after the archive had no entry, if dlsym finds the symbol)
LegacyHookCalled(s, h) ==
  h \notin DOMAIN s.arcInfo /\ LibLegacy(h.lib).present

\* ReceivePlugins as it would be if the deprecated entry point were called only
\* when the dynamic registry is empty.
ReceivedInfo_LegacyIfEmpty(s, h) ==
  IF h \in DOMAIN s.arcInfo
  THEN SelectSeq(s.arcInfo[h], LAMBDA d : InfoAlive(s, d))
  ELSE IF LibLegacy(h.lib).present /\ s.kDynamic = EmptyMap
       THEN OldIgnitionHook(h)
       ELSE ExtractRegistry(s.kDynamic)

\* ReceivePlugins as it would be without the archive: the descriptors are taken
\* from the deprecated entry point and the dynamic registry every time.
ReceivedInfo_NoArchive(s, h) ==
  (IF LibLegacy(h.lib).present THEN OldIgnitionHook(h) ELSE <<>>)
    \o ExtractRegistry(s.kDynamic)

\* Loader::Implementation::ReceivePlugins: the descriptors received for the
\* library with raw handle h.
ReceivedInfo(s, h) ==
  IF h \in DOMAIN s.arcInfo
  THEN SelectSeq(s.arcInfo[h], LAMBDA d : InfoAlive(s, d))
  ELSE (IF LibLegacy(h.lib).present THEN OldIgnitionHook(h) ELSE <<>>)
         \o ExtractRegistry(s.kDynamic)

\* Loader::Implementation::ReceivePlugins: its effect on the archive.
ReceivePlugins(s, h) ==
  IF h \in DOMAIN s.arcInfo THEN s
  ELSE ArchivePluginInfo(s, ReceivedInfo(s, h), h)

\* One iteration of the loop of StorePlugins, for descriptor plugin and share g.
StoreOne(s, l, plugin, g) ==
  LET L0 == s.ld[l]
      als == [a \in (DOMAIN L0.aliases) \cup plugin.aliases |->
                (IF a \in DOMAIN L0.aliases THEN L0.aliases[a] ELSE {})
                  \cup (IF a \in plugin.aliases THEN {plugin.name} ELSE {})]
      pls == IF plugin.name \in DOMAIN L0.plugins THEN L0.plugins
             ELSE Put(L0.plugins, plugin.name, plugin)
  IN Reap([s EXCEPT !.ld[l].aliases = als,
                    !.ld[l].plugins = pls,
                    !.ld[l].pluginToDl = Put(@, plugin.name, g)])

RECURSIVE StoreAll(_, _, _, _)
StoreAll(s, l, infos, g) ==
  IF infos = <<>> THEN s
  ELSE StoreAll(StoreOne(s, l, Head(infos), g), l, Tail(infos), g)

\* the names StorePlugins returns
NamesOf(infos) == {infos[i].name : i \in 1 .. Len(infos)}

\* Loader::Implementation::StorePlugins with the share g
StorePlugins(s, l, infos, g) ==
  [StoreAll(s, l, infos, g) EXCEPT
     !.ld[l].dlToPlugins = Put(@, RawHandle(g), NamesOf(infos))]

\* Loader::Implementation::Implementation
Implementation(s, l) ==
  StorePlugins([s EXCEPT !.ld[l] = [NoLoader EXCEPT !.alive = TRUE]], l,
               ExtractRegistry(s.kNative), NoShare)

\* LookupPlugin as it would be if it looked among the aliases before the names.
LookupPlugin_AliasFirst(L0, nameOrAlias) ==
  IF nameOrAlias \in DOMAIN L0.aliases /\ L0.aliases[nameOrAlias] # {}
  THEN IF Cardinality(L0.aliases[nameOrAlias]) = 1
       THEN CHOOSE n \in L0.aliases[nameOrAlias] : TRUE
       ELSE ""
  ELSE IF nameOrAlias \in DOMAIN L0.plugins THEN nameOrAlias
       ELSE ""

\* Loader::Implementation::LookupPlugin on the tables L0 of a loader
LookupPlugin(L0, nameOrAlias) ==
  IF nameOrAlias \in DOMAIN L0.plugins THEN nameOrAlias
  ELSE IF nameOrAlias \in DOMAIN L0.aliases /\ L0.aliases[nameOrAlias] # {}
       THEN IF Cardinality(L0.aliases[nameOrAlias]) = 1
            THEN CHOOSE n \in L0.aliases[nameOrAlias] : TRUE
            ELSE ""
       ELSE ""

\* what Loader::Implementation::LookupPlugin writes to std::cerr: nothing, the
\* list of the plugins an alias refers to (lines 891-899), or that no plugin has
\* that name or alias (lines 904-906)
LookupPluginDiag(L0, nameOrAlias) ==
  IF nameOrAlias \in DOMAIN L0.plugins THEN "none"
  ELSE IF nameOrAlias \in DOMAIN L0.aliases /\ L0.aliases[nameOrAlias] # {}
       THEN IF Cardinality(L0.aliases[nameOrAlias]) = 1 THEN "none"
            ELSE "ambiguous"
       ELSE "not-found"

\* Loader::PluginsWithAlias
PluginsWithAlias(L0, alias) ==
  (IF alias \in DOMAIN L0.aliases THEN L0.aliases[alias] ELSE {})
    \cup (IF alias \in DOMAIN L0.plugins THEN {alias} ELSE {})

\* the places dlopen can load library L at: the one it is mapped at, or else any
\* place something in the process still refers to, or the first place nothing
\* refers to
AddrUsed(s, L) ==
  {a \in 1 .. MaxAddrs :
     \/ Handle(L, a) \in DOMAIN s.arcInfo
     \/ \E l \in Loaders :
          \/ Handle(L, a) \in DOMAIN s.ld[l].dlToPlugins
          \/ \E d \in Range(s.ld[l].plugins) : d.code = Handle(L, a)
     \/ \E i \in HandleIds :
          IF s.handles[i] = Nil THEN FALSE ELSE s.handles[i].info.code = Handle(L, a)}

AddrChoices(s, L) ==
  IF Mapped(s, L) THEN {s.osHandle[L].a}
  ELSE IF ~LibMoves(L) THEN {1}
  ELSE LET free == (1 .. MaxAddrs) \ AddrUsed(s, L)
       IN AddrUsed(s, L) \cup {a \in free : \A b \in free : a <= b}

\* the first number no live control block of loader l for handle h has
FreeBlock(s, l, h) ==
  CHOOSE x \in 1 .. MaxBlocks :
    /\ Block(l, h, x) \notin s.grp
    /\ \A y \in 1 .. x - 1 : Block(l, h, y) \in s.grp

\* CreateDlHandle as it would be without the dlclose of line 674: the open that
\* found a live share is not balanced.
CreateDlHandle_NoBalance(s, l, path, a) ==
  IF ~LibExists(path) THEN [s EXCEPT !.ld[l].cur = NoShare]
  ELSE LET s1 == DlOpen(s, path, a)
           dlHandle == s1.osHandle[path]
           inserted == dlHandle \notin DOMAIN s1.ld[l].dlPtr
           dlHandlePtr == IF inserted THEN NoShare ELSE s1.ld[l].dlPtr[dlHandle]
       IN IF dlHandlePtr # NoShare
          THEN [s1 EXCEPT !.ld[l].cur = dlHandlePtr]
          ELSE LET g == Block(l, dlHandle, FreeBlock(s1, l, dlHandle))
               IN [s1 EXCEPT !.grp = @ \cup {g},
                             !.ld[l].dlPtr = Put(@, dlHandle, g),
                             !.ld[l].cur = g]

\* Loader::Implementation::CreateDlHandle (dlopen loading the library at place a
\* if it is not mapped): the frame's share is left in cur. dlopen either fails and
\* runs no initializer, or returns a handle and leaves dlerror() null.
CreateDlHandle(s, l, path, a) ==
  IF ~LibExists(path) THEN [s EXCEPT !.ld[l].cur = NoShare]
  ELSE LET s1 == DlOpen(s, path, a)
           dlHandle == s1.osHandle[path]
           inserted == dlHandle \notin DOMAIN s1.ld[l].dlPtr
           dlHandlePtr == IF inserted THEN NoShare ELSE s1.ld[l].dlPtr[dlHandle]
       IN IF dlHandlePtr # NoShare
          THEN [DlClose(s1, path) EXCEPT !.ld[l].cur = dlHandlePtr]
          ELSE LET g == Block(l, dlHandle, FreeBlock(s1, l, dlHandle))
               IN [s1 EXCEPT !.grp = @ \cup {g},
                             !.ld[l].dlPtr = Put(@, dlHandle, g),
                             !.ld[l].cur = g]

----------------------------------------------------------------------------
(* Loader::LoadLib, step by step. The frame of a running call is            *)
(* ld[l].pc / arg / cur (the local dlHandle).                               *)

\* CheckForNativePluginSymbols on the library with raw handle h
CheckForNativePluginSymbols(s, h) ==
  {s.kNative[sym].name :
     sym \in {x \in DOMAIN s.kNative : LibHasTypeInfo(h.lib, x)}}

\* the call is made: the thread goes for the mutex
LoadLibEnter(s, l, path) ==
  [s EXCEPT !.ld[l].pc = "lock", !.ld[l].arg = path]

\* LoadLib as it would be without the lock of line 359.
LoadLibLock_NoMutex(s, l) ==
  [s EXCEPT !.registering = TRUE, !.regOkay = TRUE, !.ld[l].pc = "open"]

\* lines 359-362: lock the mutex, set the mode flag, mark registration okay
LoadLibLock(s, l) ==
  [s EXCEPT !.mutex = l, !.registering = TRUE, !.regOkay = TRUE,
            !.ld[l].pc = "open"]

\* lines 364-365: CreateDlHandle
LoadLibOpen(s, l, a) ==
  [CreateDlHandle(s, l, s.ld[l].arg, a) EXCEPT !.ld[l].pc = "opened"]

\* The return of LoadLib as it would be if the lock were not let go.
LoadLibReturn_KeepLock(s, l, result) ==
  [Reap([s EXCEPT !.ld[l].cur = NoShare]) EXCEPT
     !.ld[l].pc = "idle", !.ld[l].arg = NoPath,
     !.loadRet[l][s.ld[l].arg] = Ret(result)]

\* the return of LoadLib: the locals are destroyed (the share of the frame
\* first, the lock last)
LoadLibReturn(s, l, result) ==
  [Reap([s EXCEPT !.ld[l].cur = NoShare]) EXCEPT
     !.mutex = "free", !.ld[l].pc = "idle", !.ld[l].arg = NoPath,
     !.loadRet[l][s.ld[l].arg] = Ret(result)]

\* LoadLib as it would be if the lock were let go once the library is open.
LoadLibFlag_EarlyUnlock(s, l) ==
  LET s1 == [s EXCEPT !.registering = FALSE]
  IN IF s1.ld[l].cur = NoShare THEN LoadLibReturn(s1, l, {})
     ELSE [s1 EXCEPT !.ld[l].pc = "store", !.mutex = "free"]

\* LoadLib as it would be without the early return of lines 376-377.
LoadLibFlag_NoReturn(s, l) ==
  [s EXCEPT !.registering = FALSE, !.ld[l].pc = "store"]

\* lines 366-377: clear the mode flag; without a handle, return the empty set
LoadLibFlag(s, l) ==
  LET s1 == [s EXCEPT !.registering = FALSE]
  IN IF s1.ld[l].cur = NoShare THEN LoadLibReturn(s1, l, {})
     ELSE [s1 EXCEPT !.ld[l].pc = "store"]

\* LoadLib as it would be without the probe of lines 386-400.
LoadLibResult_NoProbe(s, l) ==
  NamesOf(ReceivedInfo(s, RawHandle(s.ld[l].cur)))

\* what lines 379-402 return
LoadLibResult(s, l) ==
  LET h == RawHandle(s.ld[l].cur)
      loadedPlugins == NamesOf(ReceivedInfo(s, h))
  IN IF loadedPlugins = {} THEN CheckForNativePluginSymbols(s, h)
     ELSE loadedPlugins

\* LoadLib as it would be without line 384's kDynamicPlugins.clear().
LoadLibFinish_NoClear(s, l) ==
  LET g == s.ld[l].cur
      h == RawHandle(g)
      s1 == StorePlugins(ReceivePlugins(s, h), l, ReceivedInfo(s, h), g)
  IN LoadLibReturn(s1, l, LoadLibResult(s, l))

\* lines 379-402: receive and store the plugins, clear the dynamic registry,
\* probe for native plugins, return
LoadLibFinish(s, l) ==
  LET g == s.ld[l].cur
      h == RawHandle(g)
      s1 == StorePlugins(ReceivePlugins(s, h), l, ReceivedInfo(s, h), g)
      s2 == [s1 EXCEPT !.kDynamic = EmptyMap]
  IN LoadLibReturn(s2, l, LoadLibResult(s, l))

\* the whole call, run without interruption
LoadLibCall(s, l, path, a) ==
  LET s3 == LoadLibFlag(LoadLibOpen(LoadLibLock(LoadLibEnter(s, l, path), l), l, a), l)
  IN IF s3.ld[l].pc = "idle" THEN s3 ELSE LoadLibFinish(s3, l)

\* what the whole call returns
LoadLibRet(s, l, path, a) ==
  LET s3 == LoadLibFlag(LoadLibOpen(LoadLibLock(LoadLibEnter(s, l, path), l), l, a), l)
  IN IF s3.ld[l].pc = "idle" THEN {} ELSE LoadLibResult(s3, l)

----------------------------------------------------------------------------
(* Forgetting.                                                              *)

\* the second loop of Implementation::ForgetLibrary, for one name
ForgetOne(s, l, n) ==
  LET s1 == [s EXCEPT !.ld[l].plugins = Del(@, n)]
  IN Reap([s1 EXCEPT !.ld[l].pluginToDl = Del(@, n)])

RECURSIVE ForgetAll(_, _, _)
ForgetAll(s, l, names) ==
  IF names = {} THEN s
  ELSE LET n == CHOOSE x \in names : TRUE
       IN ForgetAll(ForgetOne(s, l, n), l, names \ {n})

\* the first loop throws std::out_of_range: plugins.at(name) or aliases.at(alias)
ForgetThrows(L0, names) ==
  \E n \in names :
    \/ n \notin DOMAIN L0.plugins
    \/ \E a \in L0.plugins[n].aliases : a \notin DOMAIN L0.aliases

\* Loader::Implementation::ForgetLibrary(void *_dlHandle): the state it leaves
ImplForgetLibrary(s, l, h) ==
  IF h = NullH \/ h \notin DOMAIN s.ld[l].dlToPlugins THEN s
  ELSE LET L0 == s.ld[l]
           names == L0.dlToPlugins[h]
       IN IF ForgetThrows(L0, names) THEN [s EXCEPT !.fault = "exception"]
          ELSE LET als == [a \in DOMAIN L0.aliases |->
                             L0.aliases[a] \
                               {L0.plugins[n].name :
                                  n \in {m \in names : a \in L0.plugins[m].aliases}}]
                   s1 == [s EXCEPT !.ld[l].aliases = als]
                   s2 == ForgetAll(s1, l, names)
               IN [s2 EXCEPT !.ld[l].dlToPlugins = Del(@, h)]

\* Loader::Implementation::ForgetLibrary(void *_dlHandle): what it returns
ImplForgetLibraryRet(s, l, h) ==
  h # NullH /\ h \in DOMAIN s.ld[l].dlToPlugins

\* dlopen(path, RTLD_NOLOAD | ...): the handle of a library that is loaded
NoLoadHandle(s, path) ==
  IF LibExists(path) THEN s.osHandle[path] ELSE NullH

\* Loader::ForgetLibrary(path) (its dlopen is balanced by its dlclose)
ForgetLibraryCall(s, l, path) == ImplForgetLibrary(s, l, NoLoadHandle(s, path))
ForgetLibraryRet(s, l, path) == ImplForgetLibraryRet(s, l, NoLoadHandle(s, path))

\* Loader::ForgetLibraryOfPlugin(nameOrAlias)
PluginHandleOf(s, l, nameOrAlias) ==
  LET resolvedName == LookupPlugin(s.ld[l], nameOrAlias)
  IN IF resolvedName \in DOMAIN s.ld[l].pluginToDl
     THEN RawHandle(s.ld[l].pluginToDl[resolvedName])
     ELSE NullH
ForgetLibraryOfPluginCall(s, l, x) == ImplForgetLibrary(s, l, PluginHandleOf(s, l, x))
ForgetLibraryOfPluginRet(s, l, x) == ImplForgetLibraryRet(s, l, PluginHandleOf(s, l, x))

----------------------------------------------------------------------------
(* Plugin handles (Plugin.hh is not part of the sources at hand; modelled   *)
(* from the specification's data model): a shared object holding the       *)
(* descriptor, a share of the library handle and the instance. The owners   *)
(* of the object are the copies of the plugin handle (shares) and the       *)
(* interface shares handed out by query_interface_shared (ishares); value   *)
(* is the state of the instance (what input() wrote, output() returns).     *)

\* the factory or deleter of descriptor d points into code that is mapped
CodeLoaded(s, d) == d.code = HostH \/ s.osHandle[d.code.lib] = d.code

\* Loader::Instantiate(nameOrAlias) runs into an assertion of PrivateGetInfo or
\* PrivateGetPluginDlHandlePtr
InstantiateAsserts(L0, x) ==
  LET resolvedName == LookupPlugin(L0, x)
  IN /\ resolvedName # ""
     /\ \/ resolvedName \notin DOMAIN L0.plugins
        \/ resolvedName \notin DOMAIN L0.pluginToDl

\* Loader::Instantiate(nameOrAlias) returns a non-empty handle
InstantiateOk(L0, x) ==
  LookupPlugin(L0, x) # "" /\ ~InstantiateAsserts(L0, x)

\* the plugin handle Loader::Instantiate builds
NewPlugin(L0, x) ==
  LET resolvedName == LookupPlugin(L0, x)
  IN [info |-> L0.plugins[resolvedName], dl |-> L0.pluginToDl[resolvedName],
      shares |-> 1, ishares |-> 0, value |-> ""]

\* Loader::Instantiate(nameOrAlias), the handle going to the free slot i
InstantiateCall(s, l, x, i) ==
  LET L0 == s.ld[l]
  IN IF LookupPlugin(L0, x) = "" THEN s
     ELSE IF InstantiateAsserts(L0, x) THEN [s EXCEPT !.fault = "assert"]
     ELSE [s EXCEPT !.handles[i] = NewPlugin(L0, x)]

\* what Loader::Instantiate(nameOrAlias) writes to std::cerr (through
\* LookupPlugin, or before an assertion)
InstantiateDiag(L0, x) ==
  IF LookupPlugin(L0, x) = "" THEN LookupPluginDiag(L0, x)
  ELSE IF InstantiateAsserts(L0, x) THEN "should-not-be-possible"
  ELSE "none"

\* Loader::Instantiate<PluginPtrType>(pluginName) runs into the assertion of
\* PrivateGetInfo or PrivateGetPluginDlHandlePtr: the name goes to them as given
InstantiateTypedAsserts(L0, x) ==
  x \notin DOMAIN L0.plugins \/ x \notin DOMAIN L0.pluginToDl

\* Loader::Instantiate<PluginPtrType>(pluginName), the handle going to the free
\* slot i. Where the assertion is compiled in (build = "debug") the process
\* aborts; where it is not, both getters return nullptr and the handle is empty.
InstantiateTypedCall(s, l, x, i, build) ==
  LET L0 == s.ld[l]
  IN IF InstantiateTypedAsserts(L0, x)
     THEN IF build = "debug" THEN [s EXCEPT !.fault = "assert"] ELSE s
     ELSE [s EXCEPT !.handles[i] =
             [info |-> L0.plugins[x], dl |-> L0.pluginToDl[x],
              shares |-> 1, ishares |-> 0, value |-> ""]]

\* one owner of plugin handle i lets go; the last one destroys the instance
\* with the descriptor's deleter, then the descriptor and the library share go
ReleaseCall(s, i) ==
  IF s.handles[i].shares + s.handles[i].ishares > 1
  THEN [s EXCEPT !.handles[i].shares = @ - 1]
  ELSE Reap([s EXCEPT !.handles[i] = Nil])

\* an interface share of instance i is released
ReleaseInterfaceCall(s, i) ==
  IF s.handles[i].shares + s.handles[i].ishares > 1
  THEN [s EXCEPT !.handles[i].ishares = @ - 1]
  ELSE Reap([s EXCEPT !.handles[i] = Nil])

\* query_interface_shared: one more owner of the object
QueryInterfaceSharedCall(s, i) ==
  [s EXCEPT !.handles[i].ishares = @ + 1]

\* TestInterface::input through an interface pointer: the instance keeps v
InputCall(s, i, v) ==
  [s EXCEPT !.handles[i].value = v]

\* TestInterface::output through an interface pointer
Output(s, i) == s.handles[i].value

\* the control blocks of loader l, which is no more, under the name Gone (each
\* with the first number no other such block of its handle has)
RECURSIVE Orphan(_, _)
Orphan(s, l) ==
  LET mine == {g \in s.grp : g.owner = l}
  IN IF mine = {} THEN s
     ELSE LET g == CHOOSE x \in mine : TRUE
              k == CHOOSE x \in 1 .. Cardinality(s.grp) :
                     /\ Block(Gone, g.h, x) \notin s.grp
                     /\ \A y \in 1 .. x - 1 : Block(Gone, g.h, y) \in s.grp
              s1 == [s EXCEPT
                       !.grp = (@ \ {g}) \cup {Block(Gone, g.h, k)},
                       !.handles = [i \in HandleIds |->
                                      IF @[i] = Nil THEN Nil
                                      ELSE IF @[i].dl = g
                                           THEN [@[i] EXCEPT !.dl = Block(Gone, g.h, k)]
                                           ELSE @[i]]]
          IN Orphan(s1, l)

\* Loader::~Loader: the members of Implementation are destroyed
DestroyCall(s, l) ==
  Orphan(Reap([s EXCEPT !.ld[l] = NoLoader,
                        !.loadRet[l] = [p \in Libs |-> NoRet]]), l)

\* Before main: the libraries linked into the host are loaded and their static
\* initializers, and the host's, call the hook.
RECURSIVE StartLibs(_, _)
StartLibs(s, Ls) ==
  IF Ls = {} THEN s
  ELSE LET L == CHOOSE x \in Ls : TRUE
       IN StartLibs(RunStaticInit(s, L), Ls \ {L})

ProgramStartCall(s) ==
  LET Ls == {L \in world : LibStatic(L)}
      s1 == [s EXCEPT !.osHandle = [L \in Libs |->
                                      IF L \in Ls THEN Handle(L, 1) ELSE NullH]]
  IN [RunStaticInit(StartLibs(s1, Ls), Host) EXCEPT !.started = TRUE]

----------------------------------------------------------------------------
(* The state machine.                                                       *)

\* names and aliases callers ask for
NameArgs == {"P", "G", "H", "N", "Q", "C", "D", "R", "V", "W", "Y",
             "a", "g", "r", "x"}

\* Before the program starts: nothing is loaded, registered or constructed.
Blank ==
  /\ started = FALSE
  /\ osRef = [L \in Libs |-> 0]
  /\ osHandle = [L \in Libs |-> NullH]
  /\ libHeld = [L \in Libs \cup {Host} |-> {}]
  /\ kNative = EmptyMap
  /\ kDynamic = EmptyMap
  /\ registering = FALSE
  /\ regOkay = FALSE
  /\ arcInfo = EmptyMap
  /\ arcBack = EmptyMap
  /\ mutex = "free"
  /\ ld = [l \in Loaders |-> NoLoader]
  /\ grp = {}
  /\ handles = [i \in HandleIds |-> Nil]
  /\ fault = "none"
  /\ loadRet = [l \in Loaders |-> [p \in Libs |-> NoRet]]

Init == Blank /\ world \in Worlds

Running == started /\ fault = "none"
Idle(l) == ld[l].alive /\ ld[l].pc = "idle"
FreeSlot(i) ==
  /\ handles[i] = Nil
  /\ \A j \in HandleIds : handles[j] = Nil => i <= j

ProgramStart ==
  /\ ~started
  /\ Set(ProgramStartCall(St))

Construct(l) ==
  /\ Running /\ ~ld[l].alive
  /\ Set(Implementation(St, l))

Destroy(l) ==
  /\ Running /\ Idle(l)
  /\ Set(DestroyCall(St, l))

\* a control block can be made for the handle library path gets at place a
CanOpen(l, path, a) ==
  \E k \in 1 .. MaxBlocks : Block(l, Handle(path, a), k) \notin grp

LoadLib(l, path) ==
  /\ Running /\ Idle(l) /\ mutex = "free" /\ path \in world
  /\ \E a \in AddrChoices(St, path) :
       /\ CanOpen(l, path, a)
       /\ Set(LoadLibCall(St, l, path, a))

ForgetLibrary(l, path) ==
  /\ Running /\ Idle(l) /\ path \in world
  /\ ForgetLibraryRet(St, l, path)
  /\ Set(ForgetLibraryCall(St, l, path))

ForgetLibraryOfPlugin(l, x) ==
  /\ Running /\ Idle(l)
  /\ ForgetLibraryOfPluginRet(St, l, x)
  /\ Set(ForgetLibraryOfPluginCall(St, l, x))

\* Calling a factory whose library is unmapped is undefined: the call crashes
\* or goes through.
Instantiate(l, x) ==
  /\ Running /\ Idle(l)
  /\ LookupPlugin(ld[l], x) # ""
  /\ \E i \in HandleIds :
       /\ FreeSlot(i)
       /\ IF InstantiateOk(ld[l], x) /\ ~CodeLoaded(St, NewPlugin(ld[l], x).info)
          THEN Set([St EXCEPT !.fault = "ub"])
          ELSE Set(InstantiateCall(St, l, x, i))

\* The typed entry point, in a build with or without assertions.
InstantiateTyped(l, x) ==
  /\ Running /\ Idle(l)
  /\ \E i \in HandleIds, build \in {"debug", "release"} :
       /\ FreeSlot(i)
       /\ IF ~InstantiateTypedAsserts(ld[l], x)
             /\ ~CodeLoaded(St, ld[l].plugins[x])
          THEN Set([St EXCEPT !.fault = "ub"])
          ELSE Set(InstantiateTypedCall(St, l, x, i, build))

Copy(i) ==
  /\ Running /\ handles[i] # Nil
  /\ handles[i].shares >= 1 /\ handles[i].shares < MaxShares
  /\ Set([St EXCEPT !.handles[i].shares = @ + 1])

\* Calling a deleter whose library is unmapped is undefined as well.
Release(i) ==
  /\ Running /\ handles[i] # Nil /\ handles[i].shares >= 1
  /\ IF handles[i].shares + handles[i].ishares = 1
          /\ ~CodeLoaded(St, handles[i].info)
     THEN Set([St EXCEPT !.fault = "ub"])
     ELSE Set(ReleaseCall(St, i))

\* Calling the up-cast function of a descriptor, or a virtual function of the
\* instance, whose library is unmapped is undefined too.
QueryInterfaceShared(i) ==
  /\ Running /\ handles[i] # Nil
  /\ handles[i].shares >= 1 /\ handles[i].ishares < MaxIShares
  /\ IF ~CodeLoaded(St, handles[i].info)
     THEN Set([St EXCEPT !.fault = "ub"])
     ELSE Set(QueryInterfaceSharedCall(St, i))

ReleaseInterface(i) ==
  /\ Running /\ handles[i] # Nil /\ handles[i].ishares >= 1
  /\ IF handles[i].shares + handles[i].ishares = 1
          /\ ~CodeLoaded(St, handles[i].info)
     THEN Set([St EXCEPT !.fault = "ub"])
     ELSE Set(ReleaseInterfaceCall(St, i))

Input(i) ==
  /\ Running /\ handles[i] # Nil /\ handles[i].value = ""
  /\ IF ~CodeLoaded(St, handles[i].info)
     THEN Set([St EXCEPT !.fault = "ub"])
     ELSE Set(InputCall(St, i, "some test string"))

\* The same call with the other threads running between its steps: every loader
\* is used by one thread.
LoadLibEnterStep(l, path) ==
  /\ Running /\ Idle(l) /\ path \in world
  /\ Set(LoadLibEnter(St, l, path))

LoadLibLockStep(l) ==
  /\ Running /\ ld[l].pc = "lock" /\ mutex = "free"
  /\ Set(LoadLibLock(St, l))

LoadLibOpenStep(l) ==
  /\ Running /\ ld[l].pc = "open"
  /\ \E a \in AddrChoices(St, ld[l].arg) :
       /\ CanOpen(l, ld[l].arg, a)
       /\ Set(LoadLibOpen(St, l, a))

LoadLibFlagStep(l) ==
  /\ Running /\ ld[l].pc = "opened"
  /\ Set(LoadLibFlag(St, l))

LoadLibFinishStep(l) ==
  /\ Running /\ ld[l].pc = "store"
  /\ Set(LoadLibFinish(St, l))

Next ==
  \/ ProgramStart
  \/ \E l \in Loaders : Construct(l)
  \/ \E l \in Loaders : Destroy(l)
  \/ \E l \in Loaders, path \in Libs : LoadLib(l, path)
  \/ \E l \in Loaders, path \in Libs : ForgetLibrary(l, path)
  \/ \E l \in Loaders, x \in NameArgs : ForgetLibraryOfPlugin(l, x)
  \/ \E l \in Loaders, x \in NameArgs : Instantiate(l, x)
  \/ \E l \in Loaders, x \in NameArgs : InstantiateTyped(l, x)
  \/ \E i \in HandleIds : Copy(i)
  \/ \E i \in HandleIds : Release(i)

Spec == Init /\ [][Next]_vars

\* The libraries the threaded runs work with.
ThreadWorlds == { {"LA", "LM"}, {"LA", "LN"}, {"LS"}, {"LG"}, {"LX", "LZ"} }

InitThreads == Blank /\ world \in ThreadWorlds

NextThreads ==
  \/ ProgramStart
  \/ \E l \in Loaders : Construct(l)
  \/ \E l \in Loaders, path \in Libs : LoadLibEnterStep(l, path)
  \/ \E l \in Loaders : LoadLibLockStep(l)
  \/ \E l \in Loaders : LoadLibOpenStep(l)
  \/ \E l \in Loaders : LoadLibFlagStep(l)
  \/ \E l \in Loaders : LoadLibFinishStep(l)
  \/ \E l \in Loaders, path \in Libs : ForgetLibrary(l, path)
  \/ \E l \in Loaders, x \in NameArgs : Instantiate(l, x)
  \/ \E i \in HandleIds : Release(i)

SpecThreads == InitThreads /\ [][NextThreads]_vars

\* Fair scheduling of the threads inside LoadLib: a thread that can run its next
\* statement does so (weak fairness of the dlopen and of the statements after
\* it), and a thread waiting for the mutex gets it if the mutex is free again
\* and again (strong fairness of the lock). The conditions are written with the
\* enabling condition of each step spelled out: its program counter, and for
\* the lock the free mutex.
FairThreads ==
  \A l \in Loaders :
    /\ ([]<>(Running /\ ld[l].pc = "lock" /\ mutex = "free"))
         => []<><<LoadLibLockStep(l)>>_vars
    /\ (<>[](Running /\ ld[l].pc = "open")) => []<><<LoadLibOpenStep(l)>>_vars
    /\ (<>[](Running /\ ld[l].pc = "opened")) => []<><<LoadLibFlagStep(l)>>_vars
    /\ (<>[](Running /\ ld[l].pc = "store")) => []<><<LoadLibFinishStep(l)>>_vars

\* The libraries the fair runs work with: a library that loads and a path that
\* cannot be opened, a library without a usable descriptor, a library whose
\* deprecated entry point reports another version.
FairWorlds == { {"LA", "LM"}, {"LZ"}, {"LV"} }

InitFair == Blank /\ world \in FairWorlds

NextFair ==
  \/ ProgramStart
  \/ \E l \in Loaders : Construct(l)
  \/ \E l \in Loaders, path \in Libs : LoadLibEnterStep(l, path)
  \/ \E l \in Loaders : LoadLibLockStep(l)
  \/ \E l \in Loaders : LoadLibOpenStep(l)
  \/ \E l \in Loaders : LoadLibFlagStep(l)
  \/ \E l \in Loaders : LoadLibFinishStep(l)
  \/ \E l \in Loaders, path \in Libs : ForgetLibrary(l, path)

SpecThreadsFair == InitFair /\ [][NextFair]_vars /\ FairThreads

\* The runs that also use the instances: interface shares and input().
HandleWorlds == { {"LA", "LB"}, {"LS", "LM"} }

InitHandles == Blank /\ world \in HandleWorlds

NextHandles ==
  \/ ProgramStart
  \/ \E l \in Loaders : Construct(l)
  \/ \E l \in Loaders, path \in Libs : LoadLib(l, path)
  \/ \E l \in Loaders, path \in Libs : ForgetLibrary(l, path)
  \/ \E l \in Loaders, x \in NameArgs : Instantiate(l, x)
  \/ \E i \in HandleIds : Copy(i)
  \/ \E i \in HandleIds : Release(i)
  \/ \E i \in HandleIds : QueryInterfaceShared(i)
  \/ \E i \in HandleIds : ReleaseInterface(i)
  \/ \E i \in HandleIds : Input(i)

SpecHandles == InitHandles /\ [][NextHandles]_vars

----------------------------------------------------------------------------
(* Properties of the loader, stated over the model.                        *)

\* C1: while a share of a plugin handle is held, the library that produced the
\* handle's descriptor stays loaded: it is mapped, and (unless it is linked into
\* the host) its operating-system reference count is at least 1.
C1_LibraryOutlivesHandle ==
  \A i \in HandleIds :
    (handles[i] # Nil /\ handles[i].info.code # HostH) =>
      LET L == handles[i].info.code.lib
      IN Mapped(St, L) /\ (LibStatic(L) \/ osRef[L] >= 1)

\* C2: for a library p that is not linked into the host: forget_library(p) by a
\* loader that loaded p, while a plugin handle from p is alive, returns true and
\* leaves p open; and p is closed (no open is left unbalanced) exactly when no
\* loader still has it as loaded and no plugin handle refers to it.
C2_ClosedExactlyWhenUnused ==
  \A p \in {L \in Libs : ~LibStatic(L)} :
    LET loadedBy == {l \in Loaders :
                       \E h \in DOMAIN ld[l].dlToPlugins : h.lib = p}
        from == {i \in HandleIds :
                   IF handles[i] = Nil THEN FALSE
                   ELSE handles[i].info.code.lib = p \/ handles[i].dl.h.lib = p}
    IN /\ started => (osRef[p] = 0 <=> (loadedBy = {} /\ from = {}))
       /\ \A l \in loadedBy :
            (fault = "none" /\ Idle(l) /\ from # {}) =>
              /\ ForgetLibraryRet(St, l, p)
              /\ ForgetLibraryCall(St, l, p).osRef[p] >= 1

\* C3: load_library(p) called twice in a row on one loader returns the same set
\* of names both times, and the second call leaves plugins, aliases,
\* plugin_to_library, library_to_plugins and the library's operating-system
\* reference count as the first call left them.
C3_LoadTwice ==
  \A l \in Loaders, p \in world :
    (Running /\ Idle(l) /\ mutex = "free") =>
      \A a1 \in {a \in AddrChoices(St, p) : CanOpen(l, p, a)} :
        LET s1 == LoadLibCall(St, l, p, a1)
        IN \A a2 \in {a \in AddrChoices(s1, p) :
                        \E k \in 1 .. MaxBlocks :
                          Block(l, Handle(p, a), k) \notin s1.grp} :
             LET s2 == LoadLibCall(s1, l, p, a2)
             IN /\ LoadLibRet(s1, l, p, a2) = LoadLibRet(St, l, p, a1)
                /\ s2.ld[l].plugins = s1.ld[l].plugins
                /\ s2.ld[l].aliases = s1.ld[l].aliases
                /\ s2.ld[l].pluginToDl = s1.ld[l].pluginToDl
                /\ s2.ld[l].dlToPlugins = s1.ld[l].dlToPlugins
                /\ s2.osRef[p] = s1.osRef[p]

C5_ForgetThenLoad ==
  \A l \in Loaders, p \in world :
    (Running /\ Idle(l) /\ mutex = "free" /\ loadRet[l][p].called
       /\ ForgetLibraryRet(St, l, p)) =>
      LET s1 == ForgetLibraryCall(St, l, p)
      IN s1.fault = "none" =>
           \A a \in {b \in AddrChoices(s1, p) :
                       \E k \in 1 .. MaxBlocks :
                         Block(l, Handle(p, b), k) \notin s1.grp} :
             LoadLibRet(s1, l, p, a) = loadRet[l][p].names

\* C6: right after load_library(p) returned S, every name n of S looks up to
\* itself and instantiate(n) gives a plugin handle (its descriptor and share are
\* there and the factory it calls is mapped).
C6_LoadedNamesUsable ==
  \A l \in Loaders, p \in world :
    (Running /\ Idle(l) /\ mutex = "free") =>
      \A a \in {b \in AddrChoices(St, p) : CanOpen(l, p, b)} :
        LET s1 == LoadLibCall(St, l, p, a)
        IN \A n \in LoadLibRet(St, l, p, a) :
             /\ LookupPlugin(s1.ld[l], n) = n
             /\ InstantiateOk(s1.ld[l], n)
             /\ CodeLoaded(s1, NewPlugin(s1.ld[l], n).info)

\* C7: at most one thread is between the start of load_library (the mode flag
\* set) and its return, and a thread is there exactly while it holds the load
\* mutex.
C7_OneLoadAtATime ==
  /\ Cardinality({l \in Loaders : ld[l].pc \in {"open", "opened", "store"}}) <= 1
  /\ \A l \in Loaders : ld[l].pc \in {"open", "opened", "store"} <=> mutex = l

\* C7 at work: one thread is storing what it loaded while another waits for the
\* mutex.
C7_Witness ==
  \E l, m \in Loaders : ld[l].pc = "store" /\ ld[m].pc = "lock"

C10_ModeFlag ==
  /\ registering =>
       \E l \in Loaders : mutex = l /\ ld[l].pc \in {"open", "opened"}
  /\ \A l \in Loaders : ld[l].pc = "store" => ~registering
  /\ \A L \in world :
       \A i \in {j \in 1 .. Len(LibRegs(L)) :
                   /\ LibRegs(L)[j].size = SizeofInfo
                   /\ LibRegs(L)[j].align = AlignofInfo} :
         LET r == LibRegs(L)[i]
             s1 == IgnitionPluginHook_v1(St, L, r)
         IN IF registering
            THEN r.symbol \in DOMAIN s1.kDynamic /\ s1.kNative = kNative
            ELSE r.symbol \in DOMAIN s1.kNative /\ s1.kDynamic = kDynamic

\* C10 at work: the flag is true and the library being opened has deposited its
\* descriptor in the dynamic registry.
C10_Witness ==
  /\ registering /\ kDynamic # EmptyMap
  /\ \E l \in Loaders : ld[l].pc = "opened"

C12_HookMerges ==
  \A L \in world :
    \A sym \in {"1P", "1R", "1N"}, ifs \in SUBSET {"1I", "1J"},
       als \in SUBSET {"a", "r", "z"} :
      LET r == Reg(sym, ifs, als, FALSE)
          reg == IF registering THEN kDynamic ELSE kNative
          s1 == IgnitionPluginHook_v1(St, L, r)
          reg1 == IF registering THEN s1.kDynamic ELSE s1.kNative
      IN sym \in DOMAIN reg =>
           /\ DOMAIN reg1 = DOMAIN reg
           /\ \A x \in DOMAIN reg \ {sym} : reg1[x] = reg[x]
           /\ reg1[sym].symbol = reg[sym].symbol
           /\ reg1[sym].name = reg[sym].name
           /\ reg1[sym].code = reg[sym].code
           /\ reg1[sym].interfaces = reg[sym].interfaces \cup ifs
           /\ reg1[sym].demangledInterfaces =
                reg[sym].demangledInterfaces \cup {DemangleSymbol(i) : i \in ifs}
           /\ reg1[sym].aliases = reg[sym].aliases \cup als
           /\ IgnitionPluginHook_v1_Ret(St, L, r) = reg1[sym]
           /\ IF registering THEN s1.kNative = kNative ELSE s1.kDynamic = kDynamic

\* C12 at work: the three hook calls of a library for one plugin class have left
\* one descriptor with the interfaces and the alias of all three.
C12_Witness ==
  /\ registering /\ "1P" \in DOMAIN kDynamic
  /\ kDynamic["1P"].interfaces = {"1I", "1J"}
  /\ kDynamic["1P"].aliases = {"a"}

\* C13: a hook call whose size or alignment argument is not the host's returns
\* a null handle, sets registration-okay to false and leaves both registries and
\* the archive as they were; and when a load's open has seen such a call, the
\* descriptors its library registered before and after it with the host's
\* values are in the dynamic registry, with the aliases they registered.
C13_MismatchLeavesRegistries ==
  /\ \A L \in world :
       \A sym \in {"1P", "1R", "1S", "1Z"},
          sa \in {<<"sizeof + 8", AlignofInfo>>, <<SizeofInfo, "alignof + 8">>,
                  <<"sizeof + 8", "alignof + 8">>} :
         LET r == BadReg(sym, {"1I"}, {"z"}, TRUE, sa[1], sa[2])
             s1 == IgnitionPluginHook_v1(St, L, r)
         IN /\ IgnitionPluginHook_v1_Ret(St, L, r) = Nil
            /\ s1.regOkay = FALSE
            /\ s1.kNative = kNative /\ s1.kDynamic = kDynamic
            /\ s1.arcInfo = arcInfo /\ s1.arcBack = arcBack
  /\ \A l \in Loaders :
       (ld[l].pc = "opened" /\ ~regOkay) =>
         LET regs == LibRegs(ld[l].arg)
             good == {i \in 1 .. Len(regs) :
                        regs[i].size = SizeofInfo /\ regs[i].align = AlignofInfo}
         IN /\ DOMAIN kDynamic = {regs[i].symbol : i \in good}
            /\ \A sym \in DOMAIN kDynamic :
                 /\ kDynamic[sym].aliases =
                      UNION {regs[i].aliases : i \in {j \in good : regs[j].symbol = sym}}
                 /\ kDynamic[sym].interfaces =
                      UNION {regs[i].interfaces : i \in {j \in good : regs[j].symbol = sym}}

\* C13 at work: the open of a library whose second registration has another
\* alignment has left registration-okay false and the plugin registered before
\* it, with the alias registered after it, in the dynamic registry.
C13_Witness ==
  \E l \in Loaders :
    /\ ld[l].pc = "opened" /\ ld[l].arg = "LX" /\ ~regOkay
    /\ DOMAIN kDynamic = {"1R"} /\ kDynamic["1R"].aliases = {"r"}

\* C14 (as the code has it): loading a library whose only descriptor fails the
\* size check returns the empty set, leaves registration-okay false and adds
\* nothing to plugins, aliases and plugin_to_library; library_to_plugins gets
\* the empty set of names under the library's handle, and library_handles an
\* entry for it whose share is gone when the call returns.
C14_BadSizeLibraryAddsNoPlugin ==
  \A l \in Loaders :
    (Running /\ Idle(l) /\ mutex = "free" /\ "LZ" \in world) =>
      \A a \in {b \in AddrChoices(St, "LZ") : CanOpen(l, "LZ", b)} :
        LET s1 == LoadLibCall(St, l, "LZ", a)
            h == Handle("LZ", a)
        IN /\ LoadLibRet(St, l, "LZ", a) = {}
           /\ s1.regOkay = FALSE
           /\ s1.ld[l].plugins = ld[l].plugins
           /\ s1.ld[l].aliases = ld[l].aliases
           /\ s1.ld[l].pluginToDl = ld[l].pluginToDl
           /\ s1.ld[l].dlToPlugins = Put(ld[l].dlToPlugins, h, {})
           /\ s1.ld[l].dlPtr = Put(ld[l].dlPtr, h, NoShare)
           /\ s1.osRef = osRef /\ s1.grp = grp

\* C14 as stated: the same load adds no entry to any table of the loader.
C14_NoEntryInAnyTable ==
  \A l \in Loaders :
    (Running /\ Idle(l) /\ mutex = "free" /\ "LZ" \in world) =>
      \A a \in {b \in AddrChoices(St, "LZ") : CanOpen(l, "LZ", b)} :
        LET s1 == LoadLibCall(St, l, "LZ", a)
        IN /\ LoadLibRet(St, l, "LZ", a) = {}
           /\ s1.regOkay = FALSE
           /\ s1.ld[l].plugins = ld[l].plugins
           /\ s1.ld[l].aliases = ld[l].aliases
           /\ s1.ld[l].pluginToDl = ld[l].pluginToDl
           /\ s1.ld[l].dlToPlugins = ld[l].dlToPlugins
           /\ s1.ld[l].dlPtr = ld[l].dlPtr

\* C14 at work: a loader that holds plugin R has loaded the library whose only
\* descriptor fails the size check.
C14_Witness ==
  \E l \in Loaders :
    /\ loadRet[l]["LZ"].called /\ loadRet[l]["LZ"].names = {} /\ ~regOkay
    /\ ld[l].pc = "idle" /\ "R" \in DOMAIN ld[l].plugins
    /\ Handle("LZ", 1) \in DOMAIN ld[l].dlToPlugins

\* C15: lookup(x) returns x when x is a key of plugins, whatever aliases holds
\* for x; otherwise the one name under aliases[x] when that set has exactly one
\* element; otherwise the empty string, reported as ambiguous when the set has
\* more than one element and as not found when it is absent or empty.
C15_LookupOrder ==
  \A l \in Loaders, x \in NameArgs \cup {"b", "n", "q"} :
    LET L0 == ld[l]
        under == IF x \in DOMAIN L0.aliases THEN L0.aliases[x] ELSE {}
        res == LookupPlugin(L0, x)
        diag == LookupPluginDiag(L0, x)
    IN /\ x \in DOMAIN L0.plugins => (res = x /\ diag = "none")
       /\ (x \notin DOMAIN L0.plugins /\ Cardinality(under) = 1) =>
            (under = {res} /\ diag = "none")
       /\ (x \notin DOMAIN L0.plugins /\ Cardinality(under) > 1) =>
            (res = "" /\ diag = "ambiguous")
       /\ (x \notin DOMAIN L0.plugins /\ under = {}) =>
            (res = "" /\ diag = "not-found")

\* C15 at work: a loader has plugin C while C is also an alias of plugin D, and
\* its other loader, after a forget, has an alias with no name left under it.
C15_Witness ==
  \E l, m \in Loaders :
    /\ "C" \in DOMAIN ld[l].plugins
    /\ "C" \in DOMAIN ld[l].aliases /\ ld[l].aliases["C"] = {"D"}
    /\ "C" \in DOMAIN ld[m].aliases /\ ld[m].aliases["C"] = {}

\* C16: plugins_with_alias(a) returns names of plugins of the loader only, among
\* them every plugin whose descriptor declares the alias a, and a itself when a
\* is a key of plugins; and when two plugins of the loader declare a, all of
\* them are returned and lookup(a) is empty unless a is a plugin name itself.
C16_PluginsWithAlias ==
  \A l \in Loaders, a \in NameArgs \cup {"b", "n", "q"} :
    LET L0 == ld[l]
        declaring == {n \in DOMAIN L0.plugins : a \in L0.plugins[n].aliases}
        res == PluginsWithAlias(L0, a)
    IN /\ res \subseteq DOMAIN L0.plugins
       /\ declaring \subseteq res
       /\ a \in DOMAIN L0.plugins => a \in res
       /\ (Cardinality(declaring) >= 2 /\ a \notin DOMAIN L0.plugins) =>
            LookupPlugin(L0, a) = ""

\* C17: both instantiate entry points treat their argument as a name or an
\* alias: when it resolves to nothing they leave the process running and make
\* no plugin handle, and when it resolves they make the same plugin handle.
C17_UnresolvedGivesEmptyHandle ==
  \A l \in Loaders, x \in NameArgs :
    (Running /\ Idle(l)) =>
      \A i \in HandleIds, build \in {"debug", "release"} :
        FreeSlot(i) =>
          /\ LookupPlugin(ld[l], x) = "" =>
               /\ InstantiateCall(St, l, x, i) = St
               /\ InstantiateTypedCall(St, l, x, i, build) = St
          /\ InstantiateOk(ld[l], x) =>
               InstantiateTypedCall(St, l, x, i, build) = InstantiateCall(St, l, x, i)

\* C18: instantiate called with a name that is neither a key of plugins nor a
\* key of aliases writes nothing to the error stream.
C18_UnknownNameIsSilent ==
  \A l \in Loaders, x \in NameArgs :
    (ld[l].alive /\ x \notin DOMAIN ld[l].plugins /\ x \notin DOMAIN ld[l].aliases) =>
      InstantiateDiag(ld[l], x) = "none"

\* C19: no operation has raised an exception, and no forget_library or
\* forget_library_of_plugin call a loader can be given would raise one by looking
\* up a name missing from plugins or an alias missing from aliases.
C19_NoException ==
  /\ fault # "exception"
  /\ \A l \in Loaders :
       (Running /\ Idle(l)) =>
         /\ \A p \in world : ForgetLibraryCall(St, l, p).fault = "none"
         /\ \A x \in NameArgs : ForgetLibraryOfPluginCall(St, l, x).fault = "none"

\* C20: while a descriptor made by a library's code is in a loader's plugins,
\* that loader's plugin_to_library holds a share of that loading of the library
\* under the descriptor's name (so no share was replaced or dropped ahead of the
\* descriptor); descriptors of the host and of linked-in libraries need none.
C20_DescriptorBeforeShare ==
  \A l \in Loaders :
    \A n \in DOMAIN ld[l].plugins :
      LET d == ld[l].plugins[n]
      IN \/ d.code = HostH
         \/ LibStatic(d.code.lib)
         \/ /\ n \in DOMAIN ld[l].pluginToDl
            /\ ld[l].pluginToDl[n] # NoShare
            /\ RawHandle(ld[l].pluginToDl[n]) = d.code

\* C21: the deleter of a live instance can be invoked when the last share of its
\* plugin handle goes, before the plugin handle's library-handle share is
\* dropped: the share the plugin handle holds is a live share of the loading of
\* the library the deleter is code of, and that code is mapped (instances of
\* the host's and of linked-in libraries' plugins need no share).
C21_DeleterBeforeShareDropped ==
  \A i \in HandleIds :
    handles[i] # Nil =>
      LET d == handles[i].info
      IN \/ d.code = HostH
         \/ LibStatic(d.code.lib)
         \/ /\ handles[i].dl \in grp
            /\ RawHandle(handles[i].dl) = d.code
            /\ CodeLoaded(St, d)

\* C22: an instance is destroyed only by the release of its last owner (a copy
\* of its plugin handle or an interface share); until then it keeps its
\* descriptor and the value written to it, whichever owners go first, and the
\* code that answers its interface queries stays mapped.
C22_InstanceLivesWhileOwned ==
  /\ [](\A i \in HandleIds :
         handles[i] # Nil =>
           /\ handles[i].shares + handles[i].ishares >= 1
           /\ CodeLoaded(St, handles[i].info))
  /\ [][\A i \in HandleIds :
         handles[i] # Nil =>
           IF handles'[i] = Nil
           THEN handles[i].shares + handles[i].ishares = 1
           ELSE /\ handles'[i].info = handles[i].info
                /\ handles[i].value # "" => Output(St', i) = Output(St, i)]_vars

\* the state of a call of load_library when it is about to receive the plugins
\* (the library opened at place a, the mode flag cleared)
AtStore(l, p, a) ==
  LoadLibFlag(LoadLibOpen(LoadLibLock(LoadLibEnter(St, l, p), l), l, a), l)

\* the names the deprecated entry point of library p hands over when its version
\* and sizes are the supported ones
LegacyNames(p) ==
  IF LibLegacy(p).version = INFO_API_VERSION /\ LibLegacy(p).sizeOk
  THEN {DemangleSymbol(i.name) : i \in LibLegacy(p).infos}
  ELSE {}

\* the names the static initializers of library p register with the sizes of
\* the host
HookNames(p) ==
  {DemangleSymbol(LibRegs(p)[i].symbol) :
     i \in {j \in 1 .. Len(LibRegs(p)) :
              LibRegs(p)[j].size = SizeofInfo /\ LibRegs(p)[j].align = AlignofInfo}}

\* C23: loading a library whose deprecated entry point reports another version
\* than the supported one, or another size of the descriptor, returns the empty
\* set and adds no plugin to the loader and no descriptor to the archive, also
\* when the library registered plugins through the current hook.
C23_LegacyMismatchRejectsLibrary ==
  \A l \in Loaders, p \in world :
    (/\ Running /\ Idle(l) /\ mutex = "free" /\ LibLegacy(p).present
     /\ (LibLegacy(p).version # INFO_API_VERSION \/ ~LibLegacy(p).sizeOk)) =>
      \A a \in {b \in AddrChoices(St, p) : CanOpen(l, p, b)} :
        LET s1 == LoadLibCall(St, l, p, a)
        IN /\ LoadLibRet(St, l, p, a) = {}
           /\ s1.ld[l].plugins = ld[l].plugins
           /\ s1.arcInfo = arcInfo /\ s1.arcBack = arcBack

\* C24 (as the claim has it): in load_library the deprecated entry point of the
\* library is called only if the current hook left no descriptor in the dynamic
\* registry for that load.
C24_LegacyOnlyIfHookEmpty ==
  \A l \in Loaders, p \in world :
    (Running /\ Idle(l) /\ mutex = "free") =>
      \A a \in {b \in AddrChoices(St, p) : CanOpen(l, p, b)} :
        LET s3 == AtStore(l, p, a)
        IN (s3.ld[l].pc = "store" /\ LegacyHookCalled(s3, Handle(p, a))) =>
             s3.kDynamic = EmptyMap

\* C24 (as the code has it): in load_library of a library that exports the
\* deprecated entry point and whose handle has no entry in the archive, the
\* entry point is called whether or not the current hook left descriptors, and
\* its descriptors are used together with those of the current hook: the call
\* returns the names of both, stores a descriptor for each and archives them,
\* those of the deprecated entry point first.
C24_LegacyUsedWithHook ==
  \A l \in Loaders, p \in world :
    (Running /\ Idle(l) /\ mutex = "free" /\ LibLegacy(p).present) =>
      \A a \in {b \in AddrChoices(St, p) : CanOpen(l, p, b)} :
        LET s3 == AtStore(l, p, a)
            s1 == LoadLibCall(St, l, p, a)
            h == Handle(p, a)
        IN h \notin DOMAIN arcInfo =>
             /\ LegacyHookCalled(s3, h)
             /\ {s3.kDynamic[x].name : x \in DOMAIN s3.kDynamic} = HookNames(p)
             /\ LoadLibRet(St, l, p, a) = LegacyNames(p) \cup HookNames(p)
             /\ LegacyNames(p) \cup HookNames(p) \subseteq DOMAIN s1.ld[l].plugins
             /\ s1.ld[l].dlToPlugins[h] = LegacyNames(p) \cup HookNames(p)
             /\ h \in DOMAIN s1.arcInfo
             /\ NamesOf(s1.arcInfo[h]) = LegacyNames(p) \cup HookNames(p)
             /\ \A i \in 1 .. Cardinality(LegacyNames(p)) :
                  s1.arcInfo[h][i].name \in LegacyNames(p)

\* C24 at work: a loader has loaded the library that hands over plugin W through
\* the deprecated entry point and registers plugin Y through the current hook,
\* and holds both.
C24_Witness ==
  \E l \in Loaders :
    /\ loadRet[l]["LW"].called /\ loadRet[l]["LW"].names = {"W", "Y"}
    /\ {"W", "Y"} \subseteq DOMAIN ld[l].plugins

\* C25: a forget of library p that returns true on loader l removes from plugins
\* and plugin_to_library exactly the names whose descriptor came from a load of
\* p (native plugins, stored without a library share, are not among them), takes
\* those names out of every alias set so that no name or alias resolves to one
\* of them afterwards, and removes p's entry of library_to_plugins; the entries
\* of the other libraries of l and the tables of the other loaders stay as they
\* were.
C25_ForgetRemovesExactlyLibrary ==
  \A l \in Loaders, p \in world :
    (Running /\ Idle(l) /\ ForgetLibraryRet(St, l, p)) =>
      LET s1 == ForgetLibraryCall(St, l, p)
          h == NoLoadHandle(St, p)
          L0 == ld[l]
          L1 == s1.ld[l]
          names == {n \in DOMAIN L0.plugins :
                      L0.plugins[n].code = h /\ L0.pluginToDl[n] # NoShare}
      IN /\ s1.fault = "none"
         /\ DOMAIN L1.plugins = (DOMAIN L0.plugins) \ names
         /\ DOMAIN L1.pluginToDl = (DOMAIN L0.pluginToDl) \ names
         /\ \A n \in DOMAIN L1.plugins :
              /\ L1.plugins[n] = L0.plugins[n]
              /\ L1.pluginToDl[n] = L0.pluginToDl[n]
         /\ DOMAIN L1.aliases = DOMAIN L0.aliases
         /\ \A a \in DOMAIN L0.aliases : L1.aliases[a] = L0.aliases[a] \ names
         /\ \A x \in NameArgs :
              /\ LookupPlugin(L1, x) \notin names
              /\ LookupPlugin(L1, x) # "" => LookupPlugin(L1, x) \in DOMAIN L1.plugins
         /\ L1.dlToPlugins = Del(L0.dlToPlugins, h)
         /\ \A m \in Loaders \ {l} : s1.ld[m] = ld[m]

\* C26: every plugin of the native registry is a key of the plugins table of
\* every loader that is alive, resolves to itself and can be instantiated,
\* whatever the loader has loaded or forgotten.
C26_NativeAlwaysAvailable ==
  \A l \in Loaders :
    (Running /\ Idle(l)) =>
      \A sym \in DOMAIN kNative :
        LET n == kNative[sym].name
        IN /\ n \in DOMAIN ld[l].plugins
           /\ LookupPlugin(ld[l], n) = n
           /\ InstantiateOk(ld[l], n)

\* C27: when a load receives no descriptor, load_library returns the names of
\* the native plugins whose type-info symbol the library has, and nothing else;
\* when it receives descriptors it returns their names, native plugins of the
\* library or not.
C27_ProbeOnlyWithoutDescriptors ==
  \A l \in Loaders, p \in world :
    (Running /\ Idle(l) /\ mutex = "free" /\ LibExists(p)) =>
      \A a \in {b \in AddrChoices(St, p) : CanOpen(l, p, b)} :
        LET s3 == AtStore(l, p, a)
            received == ReceivedInfo(s3, Handle(p, a))
            natives == {kNative[sym].name :
                          sym \in {x \in DOMAIN kNative : LibHasTypeInfo(p, x)}}
        IN /\ s3.ld[l].pc = "store"
           /\ LoadLibRet(St, l, p, a) =
                IF received = <<>> THEN natives
                ELSE {received[i].name : i \in 1 .. Len(received)}
           /\ LoadLibCall(St, l, p, a).ld[l].plugins =
                StorePlugins(s3, l, received, s3.ld[l].cur).ld[l].plugins

\* C27 at work: a loader has loaded the library that is linked into the host,
\* received no descriptor and got the native plugin's name back.
C27_Witness ==
  \E l \in Loaders :
    /\ loadRet[l]["LS"].called /\ loadRet[l]["LS"].names = {"N"}
    /\ ld[l].dlToPlugins[Handle("LS", 1)] = {}

\* loader m holds library p loaded: a plugin of m is stored with a share of the
\* handle p is mapped under
HoldsLoaded(m, p) ==
  /\ Mapped(St, p)
  /\ \E n \in DOMAIN ld[m].pluginToDl : RawHandle(ld[m].pluginToDl[n]) = osHandle[p]

\* C28: when loader l loads a library that another loader m holds loaded, the
\* library's initializers do not run and the archive's entry for the handle
\* stays as it is; l receives descriptors the archive has for the handle, the objects archived
\* when the library was first loaded, under the names m's load returned, and
\* returns those names.
C28_SecondLoaderUsesArchive ==
  \A l \in Loaders, m \in Loaders, p \in world :
    (Running /\ Idle(l) /\ mutex = "free" /\ m # l /\ HoldsLoaded(m, p)) =>
      \A a \in {b \in AddrChoices(St, p) : CanOpen(l, p, b)} :
        LET s3 == AtStore(l, p, a)
            s1 == LoadLibCall(St, l, p, a)
            h == Handle(p, a)
            received == ReceivedInfo(s3, h)
        IN /\ h = osHandle[p]
           /\ s3.kDynamic = EmptyMap
           /\ h \in DOMAIN arcInfo
           /\ SeqRange(received) \subseteq SeqRange(arcInfo[h])
           /\ NamesOf(received) = loadRet[m][p].names
           /\ LoadLibRet(St, l, p, a) = loadRet[m][p].names
           /\ h \in DOMAIN s1.arcInfo /\ s1.arcInfo[h] = arcInfo[h]

\* C28 at work: two loaders hold the same library loaded, each with the same
\* descriptor object the archive has for it.
C28_Witness ==
  \E p \in world :
    /\ \A l \in Loaders : loadRet[l][p].called /\ HoldsLoaded(l, p)
    /\ \E n \in DOMAIN ld["l1"].plugins :
         /\ n \in DOMAIN ld["l2"].plugins
         /\ ld["l1"].plugins[n] = ld["l2"].plugins[n]
         /\ ld["l1"].plugins[n] \in SeqRange(arcInfo[osHandle[p]])

\* C30: the tables of a loader that is alive and not inside a call agree: plugins
\* and plugin_to_library have the same keys, which are the names recorded in
\* library_to_plugins; a name is recorded under the raw handle of the share
\* plugin_to_library has for it (native plugins under the null handle) and
\* under no other handle.
C30_TablesConsistent ==
  \A l \in Loaders :
    (Running /\ Idle(l)) =>
      LET L0 == ld[l]
      IN /\ DOMAIN L0.plugins = DOMAIN L0.pluginToDl
         /\ DOMAIN L0.plugins = UNION Range(L0.dlToPlugins)
         /\ \A n \in DOMAIN L0.pluginToDl, h \in DOMAIN L0.dlToPlugins :
              n \in L0.dlToPlugins[h] <=> h = RawHandle(L0.pluginToDl[n])

\* C31: in every loader that is alive and not inside a call, a name is in the
\* set aliases has for an alias exactly if it is a key of plugins whose
\* descriptor has that alias; lookup returns the empty string or a key of both
\* plugins and plugin_to_library, and instantiate(name or alias) never reaches
\* an assertion of the getters.
C31_AliasesMatchPlugins ==
  \A l \in Loaders :
    (Running /\ Idle(l)) =>
      LET L0 == ld[l]
      IN /\ \A a \in NameArgs \cup DOMAIN L0.aliases, n \in NameArgs \cup DOMAIN L0.plugins :
              (a \in DOMAIN L0.aliases /\ n \in L0.aliases[a]) <=>
                (n \in DOMAIN L0.plugins /\ a \in L0.plugins[n].aliases)
         /\ \A x \in NameArgs :
              /\ LookupPlugin(L0, x) \in
                   {""} \cup ((DOMAIN L0.plugins) \cap (DOMAIN L0.pluginToDl))
              /\ ~InstantiateAsserts(L0, x)

\* C32: in every loader that is alive and not inside a call, the share stored
\* for a name is a share of the library that produced the descriptor stored
\* for that name, and is the null share exactly for the descriptors of the
\* native registry; the code of every stored descriptor is loaded.
C32_ShareOfDescriptorsLibrary ==
  \A l \in Loaders :
    (Running /\ Idle(l)) =>
      \A n \in DOMAIN ld[l].plugins :
        LET d == ld[l].plugins[n]
        IN /\ n \in DOMAIN ld[l].pluginToDl
           /\ (ld[l].pluginToDl[n] = NoShare) <=> (d \in Range(kNative))
           /\ d \notin Range(kNative) =>
                /\ RawHandle(ld[l].pluginToDl[n]) = d.code
                /\ ld[l].pluginToDl[n] \in grp
           /\ CodeLoaded(St, d)

\* C33: while a thread holds the load mutex inside load_library, no step of
\* another thread (a forget or a release that unloads a library and runs its
\* cleanup hook) changes the archive.
C33_ArchiveUnderMutex ==
  [][\A l \in Loaders :
       (mutex = l /\ ld'[l].pc = ld[l].pc) =>
         (arcInfo' = arcInfo /\ arcBack' = arcBack)]_vars

\* C34: while a library is not mapped, the archive has no entry for a handle of
\* that library and no back-pointer to one.
C34_UnloadedLibraryNotArchived ==
  \A L \in world :
    (started /\ ~Mapped(St, L)) =>
      /\ \A h \in DOMAIN arcInfo : h.lib # L
      /\ \A d \in DOMAIN arcBack : arcBack[d].lib # L

\* C35: forget_library(p) and forget_library_of_plugin(x) return true exactly
\* when the loader has a library_to_plugins entry for the non-null handle
\* concerned, and then run to their end and remove that entry, after which the
\* same call returns false; they return false and change nothing when the
\* loader never loaded the library and when the name is unknown or that of a
\* native plugin.
C35_ForgetReturnValue ==
  \A l \in Loaders :
    (Running /\ Idle(l)) =>
      /\ \A p \in world :
           LET h == NoLoadHandle(St, p)
               s1 == ForgetLibraryCall(St, l, p)
           IN /\ ForgetLibraryRet(St, l, p) <=>
                   (h # NullH /\ h \in DOMAIN ld[l].dlToPlugins)
              /\ ForgetLibraryRet(St, l, p) =>
                   /\ s1.fault = "none"
                   /\ h \notin DOMAIN s1.ld[l].dlToPlugins
                   /\ ~ForgetLibraryRet(s1, l, p)
              /\ ~ForgetLibraryRet(St, l, p) => s1 = St
              /\ ~loadRet[l][p].called => ~ForgetLibraryRet(St, l, p)
      /\ \A x \in NameArgs :
           LET n == LookupPlugin(ld[l], x)
               h == PluginHandleOf(St, l, x)
               s1 == ForgetLibraryOfPluginCall(St, l, x)
           IN /\ ForgetLibraryOfPluginRet(St, l, x) <=>
                   (h # NullH /\ h \in DOMAIN ld[l].dlToPlugins)
              /\ ForgetLibraryOfPluginRet(St, l, x) =>
                   /\ s1.fault = "none"
                   /\ h \notin DOMAIN s1.ld[l].dlToPlugins
                   /\ ~ForgetLibraryOfPluginRet(s1, l, x)
              /\ ~ForgetLibraryOfPluginRet(St, l, x) => s1 = St
              /\ (n = "" \/ n \in {kNative[sym].name : sym \in DOMAIN kNative}) =>
                   ~ForgetLibraryOfPluginRet(St, l, x)

\* C36: a load_library call that receives no descriptor returns with the
\* operating system's count of the library as it was before the call, with no
\* archive entry for the library's handle, and with plugins, aliases and
\* plugin_to_library of the loader as they were.
C36_EmptyLoadLeavesNoTrace ==
  \A l \in Loaders, p \in world :
    (Running /\ Idle(l) /\ mutex = "free" /\ LibExists(p)) =>
      \A a \in {b \in AddrChoices(St, p) : CanOpen(l, p, b)} :
        LET s1 == LoadLibCall(St, l, p, a)
            h == Handle(p, a)
        IN ReceivedInfo(AtStore(l, p, a), h) = <<>> =>
             /\ s1.osRef[p] = osRef[p]
             /\ h \notin DOMAIN s1.arcInfo
             /\ s1.ld[l].plugins = ld[l].plugins
             /\ s1.ld[l].aliases = ld[l].aliases
             /\ s1.ld[l].pluginToDl = ld[l].pluginToDl

\* the interface keys, their readable mirror and the aliases of the descriptor
\* that the registry in use in state s has for symbol sym
Sets(s, sym) ==
  LET reg == IF s.registering THEN s.kDynamic ELSE s.kNative
  IN [interfaces |-> reg[sym].interfaces,
      demangledInterfaces |-> reg[sym].demangledInterfaces,
      aliases |-> reg[sym].aliases]

\* C37: two hook calls for one symbol leave the descriptor with the same
\* interface keys and aliases in either order, whatever the registry held
\* before, and a hook call made a second time changes nothing (so any order
\* and any repetition of a set of registrations gives the same sets).
C37_OrderAndRepetition ==
  \A L \in world :
    \A sym \in {"1P", "1N"},
       ifs1 \in {{}, {"1J"}}, als1 \in {{}, {"a"}},
       ifs2 \in {{}, {"1I"}}, als2 \in {{}, {"z"}} :
      LET r1 == Reg(sym, ifs1, als1, TRUE)
          r2 == Reg(sym, ifs2, als2, FALSE)
          s1 == IgnitionPluginHook_v1(St, L, r1)
          s12 == IgnitionPluginHook_v1(s1, L, r2)
          s21 == IgnitionPluginHook_v1(IgnitionPluginHook_v1(St, L, r2), L, r1)
          s11 == IgnitionPluginHook_v1(s1, L, r1)
      IN /\ Sets(s12, sym) = Sets(s21, sym)
         /\ s11 = s1

\* C37 at work: the plugin registration and the alias registration of a plugin
\* linked into the host have left one descriptor in the native registry, and a
\* loader has it.
C37_Witness ==
  /\ ~registering /\ "1N" \in DOMAIN kNative
  /\ kNative["1N"].interfaces = {"1I"} /\ kNative["1N"].aliases = {"n"}
  /\ \E l \in Loaders : ld[l].alive /\ "N" \in DOMAIN ld[l].plugins

\* C38: under fair scheduling every call of load_library, waiting for the mutex
\* or holding it, returns, and a loader whose call has returned does not hold
\* the mutex: no thread waits for the mutex forever.
C38_LoadReturns ==
  /\ \A l \in Loaders : (ld[l].pc # "idle") ~> (ld[l].pc = "idle" /\ mutex # l)
  /\ [](\A l \in Loaders : ld[l].pc \in {"idle", "lock"} => mutex # l)

\* C38 at work: a thread waits for the mutex while another thread, which holds
\* it, is about to store the plugins of a library, after a load of a path that
\* cannot be opened has returned.
C38_Witness ==
  \E l \in Loaders, m \in Loaders :
    /\ l # m /\ ld[l].pc = "lock" /\ mutex = m /\ ld[m].pc = "store"
    /\ \E p \in world : ~LibExists(p) /\ loadRet[m][p].called

\* C39: no descriptor of a registry or of a loader has its own name among its
\* aliases, and no hook call (a plugin registration or an alias registration,
\* with any aliases) makes a registry hold such a descriptor.
C39_AliasNeverOwnName ==
  /\ \A d \in Range(kNative) \cup Range(kDynamic) : d.name \notin d.aliases
  /\ \A l \in Loaders : \A d \in Range(ld[l].plugins) : d.name \notin d.aliases
  /\ \A L \in world :
       \A sym \in {"1P", "1N"}, als \in SUBSET {"a", "P", "N"} :
         LET s1 == IgnitionPluginHook_v1(St, L, Reg(sym, {}, als, FALSE))
         IN \A d \in Range(s1.kNative) \cup Range(s1.kDynamic) :
              d.name \notin d.aliases
====
